---- MODULE Spec2Model ----
(***************************************************************************)
(* A model of the query evaluator of sql_evaluator.py, table.py and        *)
(* table_filter.py.                                                        *)
(*                                                                         *)
(* A Python str is a sequence of one-character strings, so that the text   *)
(* TableFilter formats and hands to eval() is formatted and read back      *)
(* character by character.  A Python value carries its runtime type.       *)
(***************************************************************************)
EXTENDS Integers, Sequences, FiniteSets, TLC

VARIABLES
    tables,          \* the `tables` argument of execute: a sequence of Table objects
    input,           \* the query as the caller passed it (never changes)
    query,           \* the query object, annotated in place by the two validation passes
    pc,              \* position of the generator execute()
    result_headers,  \* sql_evaluator.py:159
    early_clauses,   \* sql_evaluator.py:165
    late_clauses,    \* sql_evaluator.py:165
    tables_to_join,  \* sql_evaluator.py:173
    pools,           \* the tuples itertools.product makes of its arguments
    indices,         \* the position of itertools.product in the cross product
    output,          \* the values the generator has yielded, in order
    examined,        \* how many tuples of the product the loop body has taken
    error,           \* the exception execute() has raised, NoError when none
    fconds,          \* TableFilter specification: the conditions given to TableFilter
    frow,            \* TableFilter specification: the row it is called on
    fresult,         \* TableFilter specification: what the call did
    rfield,          \* resolution specification: the column name looked up
    rtables,         \* resolution specification: the tables searched
    rresult          \* resolution specification: what get_table_for_field did

vars == <<tables, input, query, pc, result_headers, early_clauses, late_clauses,
          tables_to_join, pools, indices, output, examined, error,
          fconds, frow, fresult, rfield, rtables, rresult>>

Min(S) == CHOOSE x \in S : \A y \in S : x <= y
Max(S) == CHOOSE x \in S : \A y \in S : x >= y

(***************************************************************************)
(* Python values and strings                                               *)
(***************************************************************************)
IntVal(n) == [type |-> "int", int |-> n, str |-> <<>>]
StrVal(s) == [type |-> "str", int |-> 0, str |-> s]
BoolVal(b) == [type |-> "bool", int |-> IF b THEN 1 ELSE 0, str |-> <<>>]
DictVal == [type |-> "dict", int |-> 0, str |-> <<>>]
\* A function or type of the builtins module, by its name
BuiltinVal(name) == [type |-> "builtin", int |-> 0, str |-> name]

\* The characters the model uses, in code point order.
Ascii == <<" ", "!", "\"", "'", "+", "-", ".",
           "0", "1", "2", "3", "4", "5", "6", "7", "8", "9",
           "<", "=", ">", "F", "N", "T", "[", "]",
           "a", "c", "d", "e", "g", "i", "l", "m", "n", "o", "r", "s", "t", "u", "w">>

Ord(c) == CHOOSE k \in 1..Len(Ascii) : Ascii[k] = c

Digits == <<"0", "1", "2", "3", "4", "5", "6", "7", "8", "9">>
IsDigit(c) == \E k \in 1..Len(Digits) : Digits[k] = c
IsLetter(c) == Ord(c) > Ord("]") \/ c \in {"F", "N", "T"}

\* Python's < on two str values: lexicographic by code point.
StrLess(a, b) ==
    \E k \in 1..(Len(a) + 1) :
        /\ \A j \in 1..(k - 1) : j <= Len(b) /\ a[j] = b[j]
        /\ k <= Len(b)
        /\ (k > Len(a) \/ Ord(a[k]) < Ord(b[k]))

RECURSIVE NatToStr(_)
NatToStr(n) ==
    IF n < 10 THEN <<Digits[n + 1]>>
    ELSE NatToStr(n \div 10) \o <<Digits[(n % 10) + 1]>>

\* "{}".format(n) of an int
IntToStr(n) == IF n < 0 THEN <<"-">> \o NatToStr(-n) ELSE NatToStr(n)

\* The number a str of digits writes in the base.
RECURSIVE ToNat(_, _)
ToNat(s, base) ==
    IF s = <<>> THEN 0
    ELSE base * ToNat(SubSeq(s, 1, Len(s) - 1), base)
         + ((CHOOSE k \in 1..10 : Digits[k] = s[Len(s)]) - 1)

StrToNat(s) == ToNat(s, 10)

\* '.'.join([table, name])
QualifiedName(table, name) == table \o <<".">> \o name

(***************************************************************************)
(* table_filter.py: the text of a condition                                *)
(***************************************************************************)
OP_MAPPINGS(op) == IF op = <<"=">> THEN <<"=", "=">> ELSE op

\* None, where a name is expected: no str, a name being a sequence of
\* one-character strings
None == <<"None">>

\* `not name`, of a name or None
Falsy(name) == name = None \/ name = <<>>

\* "{}".format(v) and str(v) of a str, an int or a bool
Format(v) ==
    CASE v.type = "str" -> v.str
      [] v.type = "bool" ->
            IF v.int = 1 THEN <<"T", "r", "u", "e">> ELSE <<"F", "a", "l", "s", "e">>
      [] OTHER -> IntToStr(v.int)

\* "{}".format(name) of a name of the query, which may be None
FormatName(name) == IF name = None THEN <<"N", "o", "n", "e">> ELSE name

\* expression(e) as __init__ formats it: the literal of a side that has one,
\* else the subscript of its column, else the None the method returns
expression(e) ==
    CASE "literal" \in DOMAIN e ->
            IF e.literal.type = "str"
            THEN <<"'">> \o Format(e.literal) \o <<"'">>
            ELSE Format(e.literal)
      [] "column" \in DOMAIN e ->
            <<"r", "o", "w", "[", "\"">>
            \o FormatName(e.column.table) \o <<".">> \o FormatName(e.column.name)
            \o <<"\"", "]">>
      [] OTHER -> FormatName(None)

ConditionText(condition) ==
    expression(condition.left) \o <<" ">> \o OP_MAPPINGS(condition.op)
        \o <<" ">> \o expression(condition.right)

(***************************************************************************)
(* eval(): Python's tokenizer, compiler and evaluator, for the expressions *)
(* that int, str and bool literals, names, subscripts, unary and binary +  *)
(* and -, shifts and comparison chains make.  A text that holds something  *)
(* else of Python (a float, an attribute reference, a keyword operator, a  *)
(* list display, a generic alias) is outside the model: eval of it gives   *)
(* raised = "Unmodelled", which is no exception of Python and says nothing *)
(* about what the code does; so does an int outside the bounds of Fits.    *)
(* Texts hold the characters of Ascii only.                                *)
(***************************************************************************)
DigitChars == {Digits[k] : k \in 1..Len(Digits)}
OctalChars == {Digits[k] : k \in 1..8}
NameChars == {c \in {Ascii[k] : k \in 1..Len(Ascii)} : IsLetter(c) \/ IsDigit(c)}

IsNameChar(c) == c \in NameChars

\* The last position of the run of characters of `chars` that starts at i.
RunEnd(text, i, chars) ==
    Min({j \in i..(Len(text) + 1) : j = Len(text) + 1 \/ text[j] \notin chars}) - 1

Token(tok, text, next) == [tok |-> tok, text |-> text, next |-> next]

\* The keywords the characters can spell, True and False apart.
Keywords ==
    { <<"N", "o", "n", "e">>, <<"a", "n", "d">>, <<"a", "s">>, <<"a", "s", "s", "e", "r", "t">>,
      <<"a", "w", "a", "i", "t">>, <<"c", "l", "a", "s", "s">>,
      <<"c", "o", "n", "t", "i", "n", "u", "e">>, <<"d", "e", "l">>,
      <<"e", "l", "s", "e">>, <<"i", "n">>, <<"i", "s">>,
      <<"n", "o", "n", "l", "o", "c", "a", "l">>, <<"n", "o", "t">>, <<"o", "r">>,
      <<"r", "a", "i", "s", "e">>, <<"r", "e", "t", "u", "r", "n">> }

\* The keywords that may follow a number without a space.
AfterNumber == {<<"a", "n", "d">>, <<"e", "l", "s", "e">>, <<"i", "n">>, <<"i", "s">>,
                <<"n", "o", "t">>, <<"o", "r">>}

\* The prefixes of a string literal the characters can spell.
Prefixes == {<<"r">>, <<"u">>, <<"F">>, <<"r", "F">>, <<"F", "r">>}

IsQuote(text, j) == j <= Len(text) /\ text[j] \in {"'", "\""}

\* The string literal whose opening quote is text[q].
StringAt(text, q) ==
    LET c == text[q]
        triple == q + 2 <= Len(text) /\ text[q + 1] = c /\ text[q + 2] = c
        close3 == {j \in (q + 3)..(Len(text) - 2) :
                      text[j] = c /\ text[j + 1] = c /\ text[j + 2] = c}
        close1 == {j \in (q + 1)..Len(text) : text[j] = c}
    IN  CASE triple /\ close3 # {} ->
               Token("STRING", SubSeq(text, q + 3, Min(close3) - 1), Min(close3) + 3)
          [] ~triple /\ close1 # {} ->
               Token("STRING", SubSeq(text, q + 1, Min(close1) - 1), Min(close1) + 1)
          [] OTHER -> Token("ERRORTOKEN", <<>>, q)

\* What ends a number, of token `tok`, whose last character is text[j]: the
\* number itself, unless a name character follows it.
EndOfNumber(text, j, tok, value) ==
    IF j < Len(text) /\ IsNameChar(text[j + 1])
    THEN IF SubSeq(text, j + 1, RunEnd(text, j + 1, NameChars)) \in AfterNumber
         THEN Token("UNMODELLED", <<>>, j + 1)
         ELSE Token("ERRORTOKEN", <<>>, j)
    ELSE Token(tok, value, j + 1)

\* The last character of the exponent that follows text[f], f when none does.
ExponentEnd(text, f) ==
    LET at(n, chars) == f + n <= Len(text) /\ text[f + n] \in chars
    IN  CASE at(1, {"e"}) /\ at(2, DigitChars) -> RunEnd(text, f + 2, DigitChars)
          [] at(1, {"e"}) /\ at(2, {"+", "-"}) /\ at(3, DigitChars) ->
               RunEnd(text, f + 3, DigitChars)
          [] OTHER -> f

\* The float whose digits before the exponent end at text[f].
FloatAt(text, f) == EndOfNumber(text, ExponentEnd(text, f), "UNMODELLED", <<>>)

RECURSIVE Pow2(_)
Pow2(n) == IF n = 0 THEN 1 ELSE 2 * Pow2(n - 1)

\* The digits of the longest literal of an int that is read: its value fits
MaxDigits == Len(NatToStr(Pow2(30))) - 1

\* The number that starts at the digit text[i].
NumberAt(text, i) ==
    LET j == RunEnd(text, i, DigitChars)
        k == RunEnd(text, i + 2, OctalChars)
    IN  CASE text[i] = "0" /\ i < Len(text) /\ text[i + 1] = "o" ->
               CASE k < i + 2 -> Token("ERRORTOKEN", <<>>, i)
                 [] k - i > MaxDigits + 1 -> EndOfNumber(text, k, "UNMODELLED", <<>>)
                 [] OTHER -> EndOfNumber(text, k, "NUMBER",
                                         NatToStr(ToNat(SubSeq(text, i + 2, k), 8)))
          [] j < Len(text) /\ text[j + 1] = "." ->
               FloatAt(text, RunEnd(text, j + 2, DigitChars))
          [] ExponentEnd(text, j) # j -> FloatAt(text, j)
          [] text[i] = "0" /\ \E n \in i..j : text[n] # "0" -> Token("ERRORTOKEN", <<>>, i)
          [] j - i >= MaxDigits -> EndOfNumber(text, j, "UNMODELLED", <<>>)
          [] OTHER -> EndOfNumber(text, j, "NUMBER", SubSeq(text, i, j))

\* The name, keyword or prefixed string literal that starts at the letter text[i].
NameAt(text, i) ==
    LET j == RunEnd(text, i, NameChars)
        name == SubSeq(text, i, j)
    IN  CASE name \in Prefixes /\ IsQuote(text, j + 1) -> StringAt(text, j + 1)
          [] name \in Keywords -> Token("UNMODELLED", <<>>, j + 1)
          [] OTHER -> Token("NAME", name, j + 1)

\* The token that starts at text[i], and where the next one starts.
NextToken(text, i) ==
    LET c == text[i]
        then(d) == i < Len(text) /\ text[i + 1] = d
    IN  CASE c = " " -> Token("SPACE", <<>>, i + 1)
          [] c \in {"'", "\""} -> StringAt(text, i)
          [] IsDigit(c) -> NumberAt(text, i)
          [] IsLetter(c) -> NameAt(text, i)
          [] c = "." /\ i < Len(text) /\ IsDigit(text[i + 1]) ->
               FloatAt(text, RunEnd(text, i + 1, DigitChars))
          [] c = "." -> Token("UNMODELLED", <<>>, i + 1)
          [] c \in {"<", ">"} /\ then(c) -> Token("OP", <<c, c>>, i + 2)
          [] c \in {"<", ">", "=", "!"} /\ then("=") -> Token("OP", <<c, "=">>, i + 2)
          [] c = "!" -> Token("ERRORTOKEN", <<>>, i)
          [] OTHER -> Token("OP", <<c>>, i + 1)

RECURSIVE Tokenize(_, _)
Tokenize(text, i) ==
    IF i > Len(text) THEN <<>>
    ELSE LET t == NextToken(text, i)
         IN  CASE t.tok = "ERRORTOKEN" -> <<t>>
               [] OTHER -> (IF t.tok = "SPACE" THEN <<>> ELSE <<t>>) \o Tokenize(text, t.next)

CompareOps == {<<"=", "=">>, <<"!", "=">>, <<"<">>, <<"<", "=">>, <<">">>, <<">", "=">>}

(***************************************************************************)
(* The compiler turns the tokens into postfix code, operands in source     *)
(* order.  `need` is what may come next, `stack` holds the operators and   *)
(* open brackets not yet emitted.  A comparison carries the position of    *)
(* the bracket it is written in (0 outside brackets); END closes the       *)
(* comparison chain of that bracket.                                       *)
(***************************************************************************)
Instr(op, value, text, id) == [op |-> op, value |-> value, text |-> text, id |-> id]

Pending(kind, text, id) == [kind |-> kind, text |-> text, id |-> id]

Emit(p) ==
    CASE p.kind = "unary" -> Instr(IF p.text = <<"-">> THEN "NEG" ELSE "POS", DictVal, <<>>, 0)
      [] p.kind = "binary" -> Instr(IF p.text = <<"-">> THEN "SUB" ELSE "ADD", DictVal, <<>>, 0)
      [] p.kind = "shift" ->
            Instr(IF p.text = <<"<", "<">> THEN "LSHIFT" ELSE "RSHIFT", DictVal, <<>>, 0)
      [] OTHER -> Instr("CMP", DictVal, p.text, p.id)

\* How many entries at the top of the stack have a kind in kinds.
TopRun(stack, kinds) ==
    Len(stack) - Max({j \in 1..Len(stack) : stack[j].kind \notin kinds} \cup {0})

\* The code of the top n entries, top first.
Popped(stack, n) == [j \in 1..n |-> Emit(stack[Len(stack) + 1 - j])]

Keep(stack, n) == SubSeq(stack, 1, Len(stack) - n)

\* The bracket the compiler is in.
Level(stack) ==
    LET open == {j \in 1..Len(stack) : stack[j].kind = "bracket"}
    IN  IF open = {} THEN 0 ELSE stack[Max(open)].id

SyntaxError(st) == [st EXCEPT !.ok = FALSE]

\* The compiler meets what the model leaves out.
Unmodelled(st) == [st EXCEPT !.ok = FALSE, !.modelled = FALSE]

CompileToken(st, toks) ==
    LET t == toks[st.i]
        next == [st EXCEPT !.i = @ + 1, !.string = FALSE]
    IN  IF st.need = "operand"
        THEN CASE t.tok = "STRING" ->
                    [next EXCEPT !.code = Append(@, Instr("PUSH", StrVal(t.text), <<>>, 0)),
                                 !.need = "operator", !.string = TRUE]
               [] t.tok = "NUMBER" ->
                    [next EXCEPT !.code = Append(@, Instr("PUSH", IntVal(StrToNat(t.text)), <<>>, 0)),
                                 !.need = "operator"]
               [] t.tok = "NAME" /\ t.text \in {<<"T", "r", "u", "e">>, <<"F", "a", "l", "s", "e">>} ->
                    [next EXCEPT !.code = Append(@, Instr("PUSH", BoolVal(t.text[1] = "T"),
                                                          <<>>, 0)),
                                 !.need = "operator"]
               [] t.tok = "NAME" ->
                    [next EXCEPT !.code = Append(@, Instr("NAME", DictVal, t.text, 0)),
                                 !.need = "operator"]
               [] t.tok = "OP" /\ t.text \in {<<"-">>, <<"+">>} ->
                    [next EXCEPT !.stack = Append(@, Pending("unary", t.text, 0))]
               \* a list display
               [] t.tok = "OP" /\ t.text = <<"[">> -> Unmodelled(st)
               [] OTHER -> SyntaxError(st)
        ELSE CASE t.tok = "STRING" /\ st.string ->
                    \* adjacent string literals are one string
                    [next EXCEPT !.code[Len(st.code)].value =
                                     StrVal(@.str \o t.text),
                                 !.string = TRUE]
               [] t.tok = "OP" /\ t.text \in {<<"-">>, <<"+">>} ->
                    LET n == TopRun(st.stack, {"unary", "binary"})
                    IN  [next EXCEPT !.code = @ \o Popped(st.stack, n),
                                     !.stack = Append(Keep(@, n), Pending("binary", t.text, 0)),
                                     !.need = "operand"]
               [] t.tok = "OP" /\ t.text \in {<<"<", "<">>, <<">", ">">>} ->
                    LET n == TopRun(st.stack, {"unary", "binary", "shift"})
                    IN  [next EXCEPT !.code = @ \o Popped(st.stack, n),
                                     !.stack = Append(Keep(@, n), Pending("shift", t.text, 0)),
                                     !.need = "operand"]
               [] t.tok = "OP" /\ t.text \in CompareOps ->
                    LET n == TopRun(st.stack, {"unary", "binary", "shift", "cmp"})
                    IN  [next EXCEPT !.code = @ \o Popped(st.stack, n),
                                     !.stack = Append(Keep(@, n),
                                                      Pending("cmp", t.text, Level(st.stack))),
                                     !.need = "operand"]
               [] t.tok = "OP" /\ t.text = <<"[">> ->
                    [next EXCEPT !.stack = Append(@, Pending("bracket", t.text, st.i)),
                                 !.need = "operand"]
               [] t.tok = "OP" /\ t.text = <<"]">> /\ Level(st.stack) # 0 ->
                    LET n == TopRun(st.stack, {"unary", "binary", "shift", "cmp"})
                    IN  [next EXCEPT !.code = @ \o Popped(st.stack, n)
                                                \o <<Instr("END", DictVal, <<>>, Level(st.stack)),
                                                     Instr("SUBSCRIPT", DictVal, <<>>, 0)>>,
                                     !.stack = Keep(@, n + 1)]
               [] OTHER -> SyntaxError(st)

RECURSIVE CompileFrom(_, _)
CompileFrom(st, toks) ==
    IF ~st.ok \/ st.i > Len(toks) THEN st ELSE CompileFrom(CompileToken(st, toks), toks)

\* The code once every token is read.
Compiled(st) ==
    IF ~st.ok \/ st.need = "operand" \/ Level(st.stack) # 0
    THEN [ok |-> FALSE, modelled |-> st.modelled, code |-> <<>>]
    ELSE [ok |-> TRUE, modelled |-> TRUE,
          code |-> st.code \o Popped(st.stack, Len(st.stack))
                     \o <<Instr("END", DictVal, <<>>, 0)>>]

CompileTokens(toks) ==
    CASE \E k \in 1..Len(toks) : toks[k].tok = "ERRORTOKEN" ->
            [ok |-> FALSE, modelled |-> TRUE, code |-> <<>>]
      [] \E k \in 1..Len(toks) : toks[k].tok = "UNMODELLED" ->
            [ok |-> FALSE, modelled |-> FALSE, code |-> <<>>]
      [] OTHER ->
            Compiled(CompileFrom([i |-> 1, code |-> <<>>, stack |-> <<>>, need |-> "operand",
                                  string |-> FALSE, ok |-> TRUE, modelled |-> TRUE], toks))

\* compile(text): [ok, modelled, code]; ok = FALSE with modelled = TRUE is a
\* SyntaxError.
Compile(text) == CompileTokens(Tokenize(text, 1))

IsNumber(v) == v.type \in {"int", "bool"}

Truthy(v, row) ==
    CASE IsNumber(v) -> v.int # 0
      [] v.type = "str" -> v.str # <<>>
      [] v.type = "dict" -> DOMAIN row # {}
      [] OTHER -> TRUE

Returns(v) == [raised |-> "", value |-> v]
Raises(exc) == [raised |-> exc, value |-> BoolVal(FALSE)]

PyCompare(op, a, b) ==
    LET eq == \/ IsNumber(a) /\ IsNumber(b) /\ a.int = b.int
              \/ a.type = "str" /\ b.type = "str" /\ a.str = b.str
              \/ a.type = "dict" /\ b.type = "dict"
              \/ a.type = "builtin" /\ b.type = "builtin" /\ a.str = b.str
        lt == IF IsNumber(a) THEN a.int < b.int ELSE StrLess(a.str, b.str)
        gt == IF IsNumber(a) THEN a.int > b.int ELSE StrLess(b.str, a.str)
        ordered == \/ IsNumber(a) /\ IsNumber(b)
                   \/ a.type = "str" /\ b.type = "str"
    IN  CASE op = <<"=", "=">> -> Returns(BoolVal(eq))
          [] op = <<"!", "=">> -> Returns(BoolVal(~eq))
          [] ~ordered -> Raises("TypeError")
          [] op = <<"<">> -> Returns(BoolVal(lt))
          [] op = <<"<", "=">> -> Returns(BoolVal(lt \/ eq))
          [] op = <<">">> -> Returns(BoolVal(gt))
          [] OTHER -> Returns(BoolVal(gt \/ eq))

\* The builtins of the names the characters can spell
Builtins ==
    { <<"a", "i", "t", "e", "r">>, <<"a", "l", "l">>, <<"a", "s", "c", "i", "i">>,
      <<"c", "r", "e", "d", "i", "t", "s">>, <<"d", "e", "l", "a", "t", "t", "r">>,
      <<"d", "i", "c", "t">>, <<"d", "i", "r">>,
      <<"e", "n", "u", "m", "e", "r", "a", "t", "e">>,
      <<"g", "e", "t", "a", "t", "t", "r">>, <<"i", "d">>, <<"i", "n", "t">>,
      <<"i", "s", "i", "n", "s", "t", "a", "n", "c", "e">>, <<"i", "t", "e", "r">>,
      <<"l", "e", "n">>, <<"l", "i", "c", "e", "n", "s", "e">>, <<"l", "i", "s", "t">>,
      <<"l", "o", "c", "a", "l", "s">>, <<"m", "i", "n">>, <<"o", "c", "t">>,
      <<"o", "r", "d">>, <<"r", "a", "n", "g", "e">>, <<"r", "o", "u", "n", "d">>,
      <<"s", "e", "t">>, <<"s", "e", "t", "a", "t", "t", "r">>, <<"s", "l", "i", "c", "e">>,
      <<"s", "o", "r", "t", "e", "d">>, <<"s", "t", "r">>, <<"s", "u", "m">> }

\* The types among them that a subscript makes a generic alias of
GenericTypes == {<<"d", "i", "c", "t">>, <<"e", "n", "u", "m", "e", "r", "a", "t", "e">>,
                 <<"l", "i", "s", "t">>, <<"s", "e", "t">>}

\* A name in eval(condition) of __call__: its locals row and condition (self
\* cannot be spelt), then the builtins; table_filter has no global that can be
\* spelt.
PyName(name, condition) ==
    CASE name = <<"r", "o", "w">> -> Returns(DictVal)
      [] name = <<"c", "o", "n", "d", "i", "t", "i", "o", "n">> -> Returns(StrVal(condition))
      [] name \in Builtins -> Returns(BuiltinVal(name))
      [] OTHER -> Raises("NameError")

PySubscript(base, slice, row) ==
    CASE base.type = "dict" ->
            CASE slice.type = "dict" -> Raises("TypeError")
              [] slice.type = "str" /\ slice.str \in DOMAIN row -> Returns(row[slice.str])
              [] OTHER -> Raises("KeyError")
      [] base.type = "builtin" /\ base.str \in GenericTypes -> Raises("Unmodelled")
      [] base.type = "str" /\ IsNumber(slice) ->
            LET k == IF slice.int < 0 THEN slice.int + Len(base.str) ELSE slice.int
            IN  IF k >= 0 /\ k < Len(base.str) THEN Returns(StrVal(<<base.str[k + 1]>>))
                ELSE Raises("IndexError")
      [] OTHER -> Raises("TypeError")

\* The ints of the model: Python's are unbounded, and what leaves these bounds
\* is left out
Fits(n) == -Pow2(30) < n /\ n < Pow2(30)

Bounded(n) == IF Fits(n) THEN Returns(IntVal(n)) ELSE Raises("Unmodelled")

PyBinary(op, a, b) ==
    CASE IsNumber(a) /\ IsNumber(b) /\ Fits(a.int) /\ Fits(b.int) ->
            Bounded(IF op = "ADD" THEN a.int + b.int ELSE a.int - b.int)
      [] IsNumber(a) /\ IsNumber(b) -> Raises("Unmodelled")
      [] a.type = "str" /\ b.type = "str" /\ op = "ADD" -> Returns(StrVal(a.str \o b.str))
      [] OTHER -> Raises("TypeError")

\* a << b and a >> b
PyShift(op, a, b) ==
    CASE ~(IsNumber(a) /\ IsNumber(b)) -> Raises("TypeError")
      [] b.int < 0 -> Raises("ValueError")
      [] ~Fits(a.int) -> Raises("Unmodelled")
      [] op = "RSHIFT" /\ b.int > 30 -> Returns(IntVal(IF a.int < 0 THEN -1 ELSE 0))
      [] op = "RSHIFT" -> Returns(IntVal(a.int \div Pow2(b.int)))
      [] a.int = 0 -> Returns(IntVal(0))
      [] b.int > 30 -> Raises("Unmodelled")
      [] a.int < Pow2(30 - b.int) /\ -a.int < Pow2(30 - b.int) ->
            Returns(IntVal(a.int * Pow2(b.int)))
      [] OTHER -> Raises("Unmodelled")

PyUnary(op, a) ==
    IF IsNumber(a) THEN Returns(IntVal(IF op = "NEG" THEN -a.int ELSE a.int))
    ELSE Raises("TypeError")

(***************************************************************************)
(* The evaluator runs the code on a stack of values.  A comparison leaves  *)
(* its result with its right operand, for the next comparison of the       *)
(* chain; a false one skips the rest of its chain, up to its END.          *)
(***************************************************************************)
Plain(v) == [value |-> v, chain |-> FALSE, last |-> v]

Execute(m, code, row) ==
    LET ins == code[m.k]
        n == Len(m.stack)
        top == m.stack[n]
        under == m.stack[n - 1]
        step == [m EXCEPT !.k = @ + 1]
        result(r, drop) ==
            IF r.raised # "" THEN [m EXCEPT !.raised = r.raised]
            ELSE [step EXCEPT !.stack = Append(SubSeq(m.stack, 1, n - drop), Plain(r.value))]
    IN  CASE m.skip # -1 /\ ~(ins.op = "END" /\ ins.id = m.skip) -> step
          [] ins.op = "END" ->
                [step EXCEPT !.skip = -1,
                             !.stack = IF top.chain THEN [@ EXCEPT ![n] = Plain(top.value)] ELSE @]
          [] ins.op = "PUSH" -> result(Returns(ins.value), 0)
          [] ins.op = "NAME" -> result(PyName(ins.text, m.condition), 0)
          [] ins.op = "SUBSCRIPT" -> result(PySubscript(under.value, top.value, row), 2)
          [] ins.op \in {"NEG", "POS"} -> result(PyUnary(ins.op, top.value), 1)
          [] ins.op \in {"ADD", "SUB"} -> result(PyBinary(ins.op, under.value, top.value), 2)
          [] ins.op \in {"LSHIFT", "RSHIFT"} ->
                result(PyShift(ins.op, under.value, top.value), 2)
          [] OTHER ->
                LET r == PyCompare(ins.text, IF under.chain THEN under.last ELSE under.value,
                                   top.value)
                IN  IF r.raised # "" THEN [m EXCEPT !.raised = r.raised]
                    ELSE [step EXCEPT
                            !.stack = Append(SubSeq(m.stack, 1, n - 2),
                                             [value |-> r.value, chain |-> TRUE,
                                              last |-> top.value]),
                            !.skip = IF Truthy(r.value, row) THEN -1 ELSE ins.id]

RECURSIVE ExecuteFrom(_, _, _)
ExecuteFrom(m, code, row) ==
    IF m.raised # "" \/ m.k > Len(code) THEN m
    ELSE ExecuteFrom(Execute(m, code, row), code, row)

\* What the evaluator stopped with.
Evaluated(m) == IF m.raised # "" THEN Raises(m.raised) ELSE Returns(m.stack[1].value)

Run(compiled, row, condition) ==
    CASE ~compiled.modelled -> Raises("Unmodelled")
      [] ~compiled.ok -> Raises("SyntaxError")
      [] OTHER ->
            Evaluated(ExecuteFrom([k |-> 1, stack |-> <<>>, raised |-> "", skip |-> -1,
                                   condition |-> condition],
                                  compiled.code, row))

\* eval(condition) in __call__, where the names row and condition are bound (the
\* text is the value of condition): compile the whole text, then run it.
PyEval(text, row) == Run(Compile(text), row, text)

(***************************************************************************)
(* table_filter.py: class TableFilter                                      *)
(***************************************************************************)
\* __init__: the list self.conditions of formatted texts
TableFilter(conditions) ==
    [k \in 1..Len(conditions) |-> ConditionText(conditions[k])]

\* The loop of __call__ over the values of eval(condition): it ends at the first
\* condition that raises or is not true.
FirstStop(evals, row) ==
    LET stops == {k \in 1..Len(evals) :
                     evals[k].raised # "" \/ ~Truthy(evals[k].value, row)}
    IN  IF stops = {} THEN [raised |-> "", value |-> TRUE]
        ELSE [raised |-> evals[Min(stops)].raised, value |-> FALSE]

\* __call__: [raised |-> the exception that escaped ("" for none), value |-> the result]
Call(self, row) == FirstStop([k \in 1..Len(self) |-> PyEval(self[k], row)], row)

(***************************************************************************)
(* Exceptions.  `message` is the format string of args[0], `field`,        *)
(* `names` and `types` are what is formatted into it, and `context` is the *)
(* prefix execute() puts before args[0] when it re-raises.                 *)
(***************************************************************************)
Exc(type, message, field, names, types) ==
    [type |-> type, message |-> message, field |-> field, names |-> names,
     types |-> types, context |-> ""]

NoError == Exc("", "", <<>>, <<>>, {})

IndexError == Exc("IndexError", "list index out of range", <<>>, <<>>, {})

(***************************************************************************)
(* sql_evaluator.py                                                        *)
(* A Table is [name, headers, rows]: table.py:18, :23 and the list itself. *)
(***************************************************************************)
get_table_for_field(field_name, tabs) ==
    LET tables_with_field == SelectSeq([i \in 1..Len(tabs) |-> i],
                                       LAMBDA i : field_name \in DOMAIN tabs[i].headers)
    IN  IF Len(tables_with_field) > 1
        THEN [raised |-> Exc("Exception",
                             "Column \"{fieldname}\" is ambiguous, because it is in multiple tables: {tables}",
                             field_name,
                             [k \in 1..Len(tables_with_field) |-> tabs[tables_with_field[k]].name],
                             {}),
              table |-> 0]
        ELSE IF Len(tables_with_field) = 0
        THEN [raised |-> IndexError, table |-> 0]
        ELSE [raised |-> NoError, table |-> tables_with_field[1]]

\* The tables named `name`, by position in tabs.
TablesNamed(tabs, name) == {i \in 1..Len(tabs) : tabs[i].name = name}

\* sql_evaluator.py:49-64, for select item k, once its table is set
CheckField(st, tabs, k) ==
    LET field == st.query.select[k]
        table_name == field.column.table
        source_tables == {st.query.from[j].as : j \in 1..Len(st.query.from)}
    IN  CASE Falsy(table_name) -> st
          [] table_name \notin source_tables ->
                [st EXCEPT !.raised =
                    Exc("Exception", "Table \"{table}\" referenced, but not in FROM clause",
                        table_name, <<>>, {})]
          [] TablesNamed(tabs, table_name) = {} ->
                [st EXCEPT !.raised = Exc("StopIteration", "", <<>>, <<>>, {})]
          [] field.column.name \notin DOMAIN tabs[Min(TablesNamed(tabs, table_name))].headers ->
                [st EXCEPT !.raised = Exc("NameError", "name 'source_table_name' is not defined",
                                          <<>>, <<>>, {})]
          [] OTHER ->
                [st EXCEPT !.query_headers =
                    Append(@, <<field.as,
                                tabs[Min(TablesNamed(tabs, table_name))].headers[field.column.name]>>)]

\* sql_evaluator.py:46-47, for select item k
InferTable(st, tabs, k, found) ==
    IF found.raised # NoError THEN [st EXCEPT !.raised = found.raised]
    ELSE CheckField([st EXCEPT !.query.select[k].column.table = tabs[found.table].name],
                    tabs, k)

\* One pass of the loop of validate_and_coalesce_select, for select item k.
SelectField(st, tabs, k) ==
    IF Falsy(st.query.select[k].column.table)
    THEN InferTable(st, tabs, k, get_table_for_field(st.query.select[k].column.name, tabs))
    ELSE CheckField(st, tabs, k)

RECURSIVE SelectLoop(_, _, _)
SelectLoop(st, tabs, k) ==
    IF st.raised # NoError \/ k > Len(st.query.select) THEN st
    ELSE SelectLoop(SelectField(st, tabs, k), tabs, k + 1)

\* [raised, query, query_headers]
validate_and_coalesce_select(q, tabs) ==
    SelectLoop([raised |-> NoError, query |-> q, query_headers |-> <<>>], tabs, 1)

(***************************************************************************)
(* parse_where_clause.  The loop state st is the function's locals:        *)
(* early_clauses, late_clauses, table (a position in tabs, 0 while the     *)
(* name is unbound), condition_types, tables_involved, and the query.      *)
(***************************************************************************)
\* sql_evaluator.py:96-97: the first table of that name
TableNamed(name, tabs) ==
    IF TablesNamed(tabs, name) = {} THEN [raised |-> IndexError, table |-> 0]
    ELSE [raised |-> NoError, table |-> Min(TablesNamed(tabs, name))]

\* sql_evaluator.py:101-108, with `found` the outcome of looking the table up
ColumnSide(st, tabs, k, side, found) ==
    LET field_name == st.query.where[k][side].column.name
    IN  CASE found.raised # NoError -> [st EXCEPT !.raised = found.raised]
          [] field_name \notin DOMAIN tabs[found.table].headers ->
                [st EXCEPT !.raised = Exc("KeyError", "{key}", field_name, <<>>, {}),
                           !.query.where[k][side].column.table = tabs[found.table].name,
                           !.table = found.table]
          [] OTHER ->
                [st EXCEPT !.query.where[k][side].column.table = tabs[found.table].name,
                           !.table = found.table,
                           !.condition_types = @ \cup {tabs[found.table].headers[field_name]},
                           !.tables_involved = @ \cup {tabs[found.table].name}]

\* sql_evaluator.py:115-119: the type of a literal; a bool is an instance of int
LiteralSide(st, k, side) ==
    LET e == st.query.where[k][side]
    IN  IF st.raised # NoError \/ "literal" \notin DOMAIN e THEN st
        ELSE [st EXCEPT !.condition_types =
                          @ \cup {IF IsNumber(e.literal) THEN "int" ELSE "str"}]

\* sql_evaluator.py:91-119: one side of condition k.  The test for a column and
\* the test for a literal are two ifs, one after the other: a side that holds
\* both is read as both, one that holds neither as nothing.
WhereSide(st, tabs, k, side) ==
    LET e == st.query.where[k][side]
    IN  CASE st.raised # NoError -> st
          [] "column" \in DOMAIN e ->
                LiteralSide(ColumnSide(st, tabs, k, side,
                                       IF ~Falsy(e.column.table)
                                       THEN TableNamed(e.column.table, tabs)
                                       ELSE get_table_for_field(e.column.name, tabs)),
                            k, side)
          [] OTHER -> LiteralSide(st, k, side)

\* early_clauses[name].append(condition) on a defaultdict(list)
AppendTo(early, name, condition) ==
    IF name \in DOMAIN early
    THEN [early EXCEPT ![name] = Append(@, condition)]
    ELSE [n \in DOMAIN early \cup {name} |->
            IF n = name THEN <<condition>> ELSE early[n]]

\* Classify sending every condition that names a table to the late list.
ClassifyAllLate(st, tabs, k) ==
    LET condition == st.query.where[k]
    IN  CASE st.raised # NoError -> st
          [] Cardinality(st.condition_types) > 1 ->
                [st EXCEPT !.raised = Exc("Exception", "LHS and RHS types do not match {}",
                                          <<>>, <<>>, st.condition_types)]
          [] Cardinality(st.tables_involved) >= 1 ->
                [st EXCEPT !.late_clauses = Append(@, condition)]
          [] st.table = 0 ->
                [st EXCEPT !.raised =
                    Exc("UnboundLocalError",
                        "cannot access local variable 'table' where it is not associated with a value",
                        <<>>, <<>>, {})]
          [] OTHER ->
                [st EXCEPT !.early_clauses = AppendTo(@, tabs[st.table].name, condition)]

\* Classify without the check of the types.
ClassifyUnchecked(st, tabs, k) ==
    LET condition == st.query.where[k]
    IN  CASE st.raised # NoError -> st
          [] Cardinality(st.tables_involved) > 1 ->
                [st EXCEPT !.late_clauses = Append(@, condition)]
          [] st.table = 0 ->
                [st EXCEPT !.raised =
                    Exc("UnboundLocalError",
                        "cannot access local variable 'table' where it is not associated with a value",
                        <<>>, <<>>, {})]
          [] OTHER ->
                [st EXCEPT !.early_clauses = AppendTo(@, tabs[st.table].name, condition)]

Classify(st, tabs, k) ==
    LET condition == st.query.where[k]
    IN  CASE st.raised # NoError -> st
          [] Cardinality(st.condition_types) > 1 ->
                [st EXCEPT !.raised = Exc("Exception", "LHS and RHS types do not match {}",
                                          <<>>, <<>>, st.condition_types)]
          [] Cardinality(st.tables_involved) > 1 ->
                [st EXCEPT !.late_clauses = Append(@, condition)]
          [] st.table = 0 ->
                [st EXCEPT !.raised =
                    Exc("UnboundLocalError",
                        "cannot access local variable 'table' where it is not associated with a value",
                        <<>>, <<>>, {})]
          [] OTHER ->
                [st EXCEPT !.early_clauses = AppendTo(@, tabs[st.table].name, condition)]

RECURSIVE WhereLoop(_, _, _)
WhereLoop(st, tabs, k) ==
    IF st.raised # NoError \/ k > Len(st.query.where) THEN st
    ELSE WhereLoop(
            Classify(
              WhereSide(
                WhereSide([st EXCEPT !.condition_types = {}, !.tables_involved = {}],
                          tabs, k, "left"),
                tabs, k, "right"),
              tabs, k),
            tabs, k + 1)

parse_where_clause(q, tabs) ==
    WhereLoop([raised |-> NoError, query |-> q, table |-> 0,
               early_clauses |-> <<>>, late_clauses |-> <<>>,
               condition_types |-> {}, tables_involved |-> {}], tabs, 1)

\* '.'.join([field['column']['table'], field['column']['name']])
FieldName(field) == QualifiedName(field.column.table, field.column.name)

\* evaluate_select: [raised, value]; '.'.join raises TypeError on a None
evaluate_select(row, q) ==
    LET raised(k) ==
            CASE None \in {q.select[k].column.table, q.select[k].column.name} -> "TypeError"
              [] FieldName(q.select[k]) \notin DOMAIN row -> "KeyError"
              [] OTHER -> ""
        failing == {k \in 1..Len(q.select) : raised(k) # ""}
    IN  IF failing # {} THEN [raised |-> raised(Min(failing)), value |-> <<>>]
        ELSE [raised |-> "",
              value |-> [k \in 1..Len(q.select) |-> row[FieldName(q.select[k])]]]

(***************************************************************************)
(* table.py: class Table                                                   *)
(***************************************************************************)
\* int(s) of a str: spaces around an optional sign and digits
IntOfStr(s) ==
    LET inked == {k \in 1..Len(s) : s[k] # " "}
        body == IF inked = {} THEN <<>> ELSE SubSeq(s, Min(inked), Max(inked))
        signed == body # <<>> /\ body[1] \in {"+", "-"}
        digits == IF signed THEN Tail(body) ELSE body
    IN  IF digits # <<>> /\ \A k \in 1..Len(digits) : IsDigit(digits[k])
        THEN IF Len(digits) > MaxDigits THEN Raises("Unmodelled")
             ELSE Returns(IntVal(IF body[1] = "-" THEN -StrToNat(digits)
                                 ELSE StrToNat(digits)))
        ELSE Raises("ValueError")

\* DATA_TYPES[field_type](field): int(field) or str(field), of an int, a bool or
\* a str of the file: [raised, value]
DATA_TYPES(field_type, field) ==
    CASE field_type = "int" ->
            IF IsNumber(field) THEN Returns(IntVal(field.int)) ELSE IntOfStr(field.str)
      [] field_type = "str" -> Returns(StrVal(Format(field)))
      [] OTHER -> Raises("KeyError")

\* Table.__init__ on the decoded contents of examples/<table>.table.json: the
\* dict of the headers is built first; then the fields are converted row by
\* row, left to right, each under the header of its index, and the first that
\* raises ends the construction.  A row may be shorter or longer than the
\* headers, and '.'.join raises TypeError on a name that is None.
Table(file, name) ==
    LET width == Len(file.headers)
        field(r, j) ==
            CASE j > width -> Raises("IndexError")
              [] Len(file.headers[j]) # 2 -> Raises("ValueError")
              [] None \in {name, file.headers[j][1]} -> Raises("TypeError")
              [] OTHER -> DATA_TYPES(file.headers[j][2], file.rows[r][j])
        raising(r) == {j \in 1..Len(file.rows[r]) : field(r, j).raised # ""}
        failed == {r \in 1..Len(file.rows) : raising(r) # {}}
        short == \E j \in 1..width : Len(file.headers[j]) < 2
        key(j) == QualifiedName(name, file.headers[j][1])
    IN  [name |-> name,
         raised |-> CASE short -> "IndexError"
                      [] failed # {} -> field(Min(failed), Min(raising(Min(failed)))).raised
                      [] OTHER -> "",
         headers |-> IF short THEN <<>>
                     ELSE [h \in {file.headers[j][1] : j \in 1..width} |->
                             LET j == Max({i \in 1..width : file.headers[i][1] = h})
                             IN  file.headers[j][2]],
         rows |-> IF short \/ failed # {} THEN <<>>
                  ELSE [r \in 1..Len(file.rows) |->
                          [k \in {key(j) : j \in 1..Len(file.rows[r])} |->
                             LET j == Max({i \in 1..Len(file.rows[r]) : key(i) = k})
                             IN  field(r, j).value]]]

\* Table.filter: the lazy filter object filter(TableFilter(conditions), self)
Table_filter(self, conditions) ==
    [lazy |-> TRUE, function |-> TableFilter(conditions), iterable |-> self.rows]

\* A table handed to the product as it is
Unfiltered(self) == [lazy |-> FALSE, function |-> <<>>, iterable |-> self.rows]

\* The rows a filter lets through, given what it did on each row, in order:
\* [raised, rows]
Kept(iterable, keep) ==
    LET raising == {k \in 1..Len(iterable) : keep[k].raised # ""}
        chosen == SelectSeq([k \in 1..Len(iterable) |-> k], LAMBDA k : keep[k].value)
    IN  IF raising # {} THEN [raised |-> keep[Min(raising)].raised, rows |-> <<>>]
        ELSE [raised |-> "", rows |-> [j \in 1..Len(chosen) |-> iterable[chosen[j]]]]

\* tuple(it) of a filter object or of a table
Tuple(it) ==
    Kept(it.iterable,
         [k \in 1..Len(it.iterable) |->
            IF it.lazy THEN Call(it.function, it.iterable[k])
            ELSE [raised |-> "", value |-> TRUE]])

\* The pools of the product, given the tuple of each argument: [raised, pools]
Pooled(tuples) ==
    LET raising == {k \in 1..Len(tuples) : tuples[k].raised # ""}
    IN  IF raising # {} THEN [raised |-> tuples[Min(raising)].raised, pools |-> <<>>]
        ELSE [raised |-> "", pools |-> [k \in 1..Len(tuples) |-> tuples[k].rows]]

\* itertools.product(*args) makes a tuple of each argument, left to right.
Pools(args) == Pooled([k \in 1..Len(args) |-> Tuple(args[k])])

\* dict.update
Update(d, other) ==
    [key \in DOMAIN d \cup DOMAIN other |->
        IF key \in DOMAIN other THEN other[key] ELSE d[key]]

\* joined_row after the loop of execute over the first k rows of the tuple
RECURSIVE JoinedRow(_, _)
JoinedRow(row, k) ==
    IF k = 0 THEN <<>> ELSE Update(JoinedRow(row, k - 1), row[k])

\* The tuple the product is at.
CurrentTuple(ps, idx) == [i \in 1..Len(ps) |-> ps[i][idx[i]]]

\* execute re-raising what a validation pass raised: Exception(prefix + e.args[0])
Reraise(context, e) ==
    IF e.type = "StopIteration"
    THEN Exc("IndexError", "tuple index out of range", <<>>, <<>>, {})
    ELSE [e EXCEPT !.type = "Exception", !.context = context]

Header(h) == [kind |-> "header", header |-> h, row |-> <<>>]
DataRow(r) == [kind |-> "row", header |-> <<>>, row |-> r]

(***************************************************************************)
(* The inputs: two table files and the queries over them                   *)
(***************************************************************************)
MaxRows == 2
MaxWhere == 2

U == <<"u">>
O == <<"o">>
M == <<"m">>
USERS == <<"u", "s", "e", "r", "s">>
ORDERS == <<"o", "r", "d", "e", "r", "s">>
ID == <<"i", "d">>
NAME == <<"n", "a", "m", "e">>
UID == <<"u", "i", "d">>
TAG == <<"t", "a", "g">>
AGE == <<"a", "g", "e">>

\* examples/<source>.table.json with n rows
File(source, n) ==
    IF source = USERS
    THEN [headers |-> <<<<ID, "int">>, <<NAME, "str">>>>,
          rows |-> [k \in 1..n |->
                      <<IntVal(k), StrVal(<<<<"a">>, <<"c">>, <<"a", "c">>>>[((k - 1) % 3) + 1])>>]]
    ELSE [headers |-> <<<<ID, "int">>, <<UID, "int">>, <<TAG, "str">>>>,
          rows |-> [k \in 1..n |->
                      <<IntVal(10 + k), IntVal((k % 2) + 1),
                        StrVal(IF k % 2 = 1 THEN <<"a">> ELSE <<"c">>)>>]]

Column(t, n) == [column |-> [table |-> t, name |-> n]]
Literal(v) == [literal |-> v]
\* a malformed side, with both keys
Both(t, n, v) == [column |-> [table |-> t, name |-> n], literal |-> v]
Condition(l, op, r) == [left |-> l, right |-> r, op |-> op]
SelectItem(t, n) == [column |-> [table |-> t, name |-> n], as |-> n]
FromItem(source, as) == [source |-> source, as |-> as]

Operators == {<<"=">>, <<"!", "=">>, <<"<">>, <<"<", "=">>, <<">">>, <<">", "=">>}

\* the str value  '+row["o.tag"]+'
Splice == <<"'", "+", "r", "o", "w", "[", "\"", "o", ".", "t", "a", "g", "\"", "]", "+", "'">>

Conditions ==
    { Condition(Column(U, ID), <<"=">>, Column(O, UID)),
      Condition(Column(U, ID), <<"<", "=">>, Literal(IntVal(1))),
      Condition(Column(None, NAME), <<"!", "=">>, Literal(StrVal(<<"c">>))),
      Condition(Literal(IntVal(1)), <<"=">>, Literal(IntVal(1))),
      Condition(Column(U, NAME), <<"=">>, Literal(StrVal(<<"'">>))),
      Condition(Column(U, NAME), <<"=">>, Literal(StrVal(Splice))),
      Condition(Column(U, ID), <<"=">>, Literal(StrVal(<<"a">>))),
      Condition(Column(None, ID), <<">">>, Literal(IntVal(1))),
      Condition(Column(None, AGE), <<"=">>, Literal(IntVal(1))),
      Condition(Column(U, UID), <<"<">>, Literal(IntVal(2))),
      Condition(Column(U, ID), <<"=">>, Literal(BoolVal(TRUE))),
      Condition(Column(U, NAME), <<"!", "=">>, Literal(BoolVal(FALSE))),
      Condition(Both(U, ID, StrVal(<<"a">>)), <<"=">>, Column(U, ID)) }

RECURSIVE SeqsUpTo(_, _)
SeqsUpTo(S, n) ==
    IF n = 0 THEN {<<>>}
    ELSE LET shorter == SeqsUpTo(S, n - 1)
         IN  shorter \cup {Append(w, c) : w \in shorter, c \in S}

FromLists == {<<FromItem(USERS, U)>>, <<FromItem(USERS, U), FromItem(ORDERS, O)>>}

\* Select lists whose every item is a column of the tables in FROM
GoodSelects ==
    { <<SelectItem(None, NAME)>>,
      <<SelectItem(U, NAME), SelectItem(U, ID)>> }

SelectLists ==
    GoodSelects \cup
    { <<SelectItem(O, ID), SelectItem(U, NAME)>>,
      <<SelectItem(None, ID)>>,
      <<SelectItem(U, TAG)>>,
      <<SelectItem(None, AGE)>>,
      <<SelectItem(M, ID)>> }

Queries ==
    {[select |-> s, from |-> f, where |-> w] :
        s \in SelectLists, f \in FromLists, w \in SeqsUpTo(Conditions, MaxWhere)}

\* __main__: one Table per FROM item, named by its alias
LoadTables(q, n) == [i \in 1..Len(q.from) |-> Table(File(q.from[i].source, n[i]), q.from[i].as)]

\* What a Table(...) of __main__ raises, NoError when every table is built
LoadError(tabs) ==
    LET raising == {i \in 1..Len(tabs) : tabs[i].raised # ""}
    IN  IF raising = {} THEN NoError ELSE Exc(tabs[Min(raising)].raised, "", <<>>, <<>>, {})

(***************************************************************************)
(* execute(query, tables), one step of the generator at a time             *)
(***************************************************************************)
Idle == /\ fconds = <<>> /\ frow = <<>> /\ fresult = <<>>
        /\ rfield = <<>> /\ rtables = <<>> /\ rresult = <<>>

Init ==
    /\ \E q \in Queries, n \in [1..2 -> 0..MaxRows] :
          /\ Len(q.where) <= 1 \/ q.select \in GoodSelects
          /\ input = q
          /\ query = q
          /\ tables = LoadTables(q, n)
    /\ pc = IF LoadError(tables) = NoError THEN "select" ELSE "raised"
    /\ result_headers = <<>>
    /\ early_clauses = <<>>
    /\ late_clauses = <<>>
    /\ tables_to_join = <<>>
    /\ pools = <<>>
    /\ indices = <<>>
    /\ output = <<>>
    /\ examined = 0
    /\ error = LoadError(tables)
    /\ Idle

\* sql_evaluator.py:158-161
Validated(r) ==
    /\ query' = r.query
    /\ IF r.raised # NoError
       THEN /\ error' = Reraise("Error in SELECT clause: ", r.raised)
            /\ pc' = "raised"
            /\ UNCHANGED result_headers
       ELSE /\ result_headers' = r.query_headers
            /\ pc' = "where"
            /\ UNCHANGED error

ValidateSelect ==
    /\ pc = "select"
    /\ Validated(validate_and_coalesce_select(query, tables))
    /\ UNCHANGED <<tables, input, early_clauses, late_clauses, tables_to_join, pools,
                   indices, output, examined, fconds, frow, fresult, rfield, rtables, rresult>>

\* Parsed going on to the join when the WHERE clause is rejected.
ParsedIgnoringErrors(r) ==
    /\ query' = r.query
    /\ early_clauses' = r.early_clauses
    /\ late_clauses' = r.late_clauses
    /\ pc' = "filter"
    /\ UNCHANGED error

\* sql_evaluator.py:164-167
Parsed(r) ==
    /\ query' = r.query
    /\ IF r.raised # NoError
       THEN /\ error' = Reraise("Error in WHERE clause: ", r.raised)
            /\ pc' = "raised"
            /\ UNCHANGED <<early_clauses, late_clauses>>
       ELSE /\ early_clauses' = r.early_clauses
            /\ late_clauses' = r.late_clauses
            /\ pc' = "filter"
            /\ UNCHANGED error

ParseWhere ==
    /\ pc = "where"
    /\ Parsed(parse_where_clause(query, tables))
    /\ UNCHANGED <<tables, input, result_headers, tables_to_join, pools,
                   indices, output, examined, fconds, frow, fresult, rfield, rtables, rresult>>

\* sql_evaluator.py:173-179: the list tables_to_join
ToJoin(tabs, early) ==
    [i \in 1..Len(tabs) |->
        IF tabs[i].name \in DOMAIN early
        THEN Table_filter(tabs[i], early[tabs[i].name])
        ELSE Unfiltered(tabs[i])]

FilterTables ==
    /\ pc = "filter"
    /\ tables_to_join' = ToJoin(tables, early_clauses)
    /\ pc' = "header"
    /\ UNCHANGED <<tables, input, query, result_headers, early_clauses, late_clauses, pools,
                   indices, output, examined, error, fconds, frow, fresult,
                   rfield, rtables, rresult>>

\* sql_evaluator.py:186
YieldHeader ==
    /\ pc = "header"
    /\ output' = Append(output, Header(result_headers))
    /\ pc' = "product"
    /\ UNCHANGED <<tables, input, query, result_headers, early_clauses, late_clauses,
                   tables_to_join, pools, indices, examined, error, fconds, frow, fresult,
                   rfield, rtables, rresult>>

\* sql_evaluator.py:188-189: the product is built, which runs the early filters
Built(r) ==
    IF r.raised # ""
    THEN /\ error' = Exc(r.raised, "", <<>>, <<>>, {})
         /\ pc' = "raised"
         /\ UNCHANGED <<pools, indices>>
    ELSE /\ pools' = r.pools
         /\ indices' = [i \in 1..Len(r.pools) |-> 1]
         /\ pc' = IF \E i \in 1..Len(r.pools) : r.pools[i] = <<>> THEN "done" ELSE "loop"
         /\ UNCHANGED error

Product ==
    /\ pc = "product"
    /\ Built(Pools(tables_to_join))
    /\ UNCHANGED <<tables, input, query, result_headers, early_clauses, late_clauses,
                   tables_to_join, output, examined, fconds, frow, fresult,
                   rfield, rtables, rresult>>

\* Advance with the leftmost index fastest.
AdvanceLeftmost(ps, idx) ==
    LET movable == {i \in 1..Len(ps) : idx[i] < Len(ps[i])}
    IN  IF movable = {} THEN idx
        ELSE [i \in 1..Len(ps) |->
                IF i > Min(movable) THEN idx[i]
                ELSE IF i = Min(movable) THEN idx[i] + 1 ELSE 1]

\* The position after idx, rightmost index fastest; idx itself at the end.
Advance(ps, idx) ==
    LET movable == {i \in 1..Len(ps) : idx[i] < Len(ps[i])}
    IN  IF movable = {} THEN idx
        ELSE [i \in 1..Len(ps) |->
                IF i < Max(movable) THEN idx[i]
                ELSE IF i = Max(movable) THEN idx[i] + 1 ELSE 1]

\* sql_evaluator.py:189: the for statement takes the next tuple of the product,
\* or ends the generator when there is none
NextTuple ==
    /\ indices' = Advance(pools, indices)
    /\ pc' = IF Advance(pools, indices) = indices THEN "done" ELSE "loop"

\* sql_evaluator.py:194-195, with what meets_criteria and evaluate_select did: a
\* row that meets the criteria is yielded, and the generator is suspended at the
\* yield; after one that does not the for statement goes on.
Body(meets_criteria, selected) ==
    LET raised == IF meets_criteria.raised # "" THEN meets_criteria.raised
                  ELSE IF meets_criteria.value THEN selected.raised ELSE ""
    IN  CASE raised # "" ->
               /\ error' = Exc(raised, "", <<>>, <<>>, {})
               /\ pc' = "raised"
               /\ UNCHANGED <<output, indices>>
          [] meets_criteria.value ->
               /\ output' = Append(output, DataRow(selected.value))
               /\ pc' = "yield"
               /\ UNCHANGED <<indices, error>>
          [] OTHER ->
               /\ NextTuple
               /\ UNCHANGED <<output, error>>

\* sql_evaluator.py:190-195 on the joined row
OnJoined(joined_row) ==
    Body(Call(TableFilter(late_clauses), joined_row), evaluate_select(joined_row, query))

\* sql_evaluator.py:189-195: one pass of the loop body
Loop ==
    /\ pc = "loop"
    /\ examined' = examined + 1
    /\ OnJoined(JoinedRow(CurrentTuple(pools, indices), Len(pools)))
    /\ UNCHANGED <<tables, input, query, result_headers, early_clauses, late_clauses,
                   tables_to_join, pools, fconds, frow, fresult, rfield, rtables, rresult>>

\* sql_evaluator.py:195 to :189: the caller asks for the next value, and the
\* generator goes on from the yield
Resume ==
    /\ pc = "yield"
    /\ NextTuple
    /\ UNCHANGED <<tables, input, query, result_headers, early_clauses, late_clauses,
                   tables_to_join, pools, output, examined, error, fconds, frow, fresult,
                   rfield, rtables, rresult>>

Next ==
    ValidateSelect \/ ParseWhere \/ FilterTables \/ YieldHeader \/ Product \/ Loop \/ Resume

Spec == Init /\ [][Next]_vars

(***************************************************************************)
(* Properties of execute                                                   *)
(***************************************************************************)
\* The WHERE clause has been accepted.
Classified ==
    \/ pc \in {"filter", "header", "product", "loop", "yield", "done"}
    \/ pc = "raised" /\ error.context = ""

\* parse_where_clause has run.
WhereRan ==
    /\ pc \notin {"select", "where"}
    /\ ~(pc = "raised" /\ error.context = "Error in SELECT clause: ")

ColumnSides(c) == {side \in {"left", "right"} : "column" \in DOMAIN c[side]}

\* The table aliases a condition references through its column sides.
Aliases(c) == {c[side].column.table : side \in ColumnSides(c)}

Count(s, c) == Cardinality({k \in 1..Len(s) : s[k] = c})

\* C3: a condition whose column sides reference two aliases is in the late list,
\* as often as in the WHERE list, and in no early bucket; one whose column sides
\* reference one alias A is in early[A], as often as in the WHERE list, and
\* neither in the late list nor in another bucket.
C3_Classification ==
    Classified =>
        \A k \in 1..Len(query.where) :
            LET c == query.where[k]
            IN  /\ Cardinality(Aliases(c)) = 2 =>
                      /\ Count(late_clauses, c) = Count(query.where, c)
                      /\ \A A \in DOMAIN early_clauses : Count(early_clauses[A], c) = 0
                /\ Cardinality(Aliases(c)) = 1 =>
                      /\ Count(late_clauses, c) = 0
                      /\ \A A \in Aliases(c) :
                            /\ A \in DOMAIN early_clauses
                            /\ Count(early_clauses[A], c) = Count(query.where, c)
                      /\ \A B \in DOMAIN early_clauses \ Aliases(c) :
                            Count(early_clauses[B], c) = 0

C3_Witness ==
    /\ pc = "filter"
    /\ Len(late_clauses) = 1
    /\ Cardinality(Aliases(late_clauses[1])) = 2
    /\ U \in DOMAIN early_clauses
    /\ Aliases(early_clauses[U][1]) = {U}

\* C4: every condition of early[A] references exactly one alias, and it is A
\* (so no condition of two literals is in a bucket).
C4_EarlyReferencesItsAlias ==
    Classified =>
        \A A \in DOMAIN early_clauses :
            \A k \in 1..Len(early_clauses[A]) : Aliases(early_clauses[A][k]) = {A}

\* The tables whose schema declares the column.
Declaring(name) == {i \in 1..Len(tables) : name \in DOMAIN tables[i].headers}

\* The declared type of the column of a side; none when the column does not
\* resolve.
ColumnTypes(e) ==
    IF ~Falsy(e.column.table)
    THEN {tables[i].headers[e.column.name] :
             i \in {j \in TablesNamed(tables, e.column.table) :
                       e.column.name \in DOMAIN tables[j].headers}}
    ELSE IF Cardinality(Declaring(e.column.name)) = 1
         THEN {tables[i].headers[e.column.name] : i \in Declaring(e.column.name)}
         ELSE {}

\* The type labels of one side of a condition: the declared type of its column,
\* and for its literal "int" when the literal is of a kind in `integers`, "str"
\* otherwise.
SideTypes(e, integers) ==
    (IF "column" \in DOMAIN e THEN ColumnTypes(e) ELSE {})
      \cup (IF "literal" \in DOMAIN e
            THEN {IF e.literal.type \in integers THEN "int" ELSE "str"} ELSE {})

\* The labels across both sides
ConditionTypes(c, integers) == SideTypes(c.left, integers) \cup SideTypes(c.right, integers)

Resolvable(c) ==
    \A side \in ColumnSides(c) : ColumnTypes(c[side]) # {}

Mismatch(c, integers) == Resolvable(c) /\ Cardinality(ConditionTypes(c, integers)) > 1

\* Condition j of w passes parse_where_clause when those before it did.
Accepted(w, j, integers) ==
    /\ Resolvable(w[j])
    /\ ~Mismatch(w[j], integers)
    /\ \E i \in 1..j : ColumnSides(w[i]) # {}

IsTypeMismatch(e) == e.message = "LHS and RHS types do not match {}"

\* parse_where_clause rejects a condition with the type mismatch error exactly
\* when its two sides carry more than one type, and names those types; every
\* condition of an early bucket or of the late list has one type at most.
TypeMismatchRule(integers) ==
    WhereRan =>
        /\ IsTypeMismatch(error) <=>
              \E k \in 1..Len(input.where) :
                  /\ Mismatch(input.where[k], integers)
                  /\ \A j \in 1..(k - 1) : Accepted(input.where, j, integers)
        /\ IsTypeMismatch(error) =>
              \E k \in 1..Len(input.where) :
                  /\ Mismatch(input.where[k], integers)
                  /\ error.types = ConditionTypes(input.where[k], integers)
        /\ Classified =>
              /\ \A k \in 1..Len(late_clauses) :
                    Cardinality(ConditionTypes(late_clauses[k], integers)) <= 1
              /\ \A A \in DOMAIN early_clauses :
                    \A k \in 1..Len(early_clauses[A]) :
                        Cardinality(ConditionTypes(early_clauses[A][k], integers)) <= 1

\* C7, amended: parse_where_clause rejects a condition with the type mismatch
\* error exactly when the types of its two sides differ, where a side has the
\* declared type of its column, "int" for a literal that is an int or a bool
\* (isinstance(True, int)) and "str" for another literal; it names those types,
\* and every condition of an early bucket or of the late list has one type at
\* most.
C7_TypeMismatch == TypeMismatchRule({"int", "bool"})

\* C7 as it is worded: "int" for an integer literal, string otherwise, so that a
\* bool literal is a string.  Violated by u.id = true, which is accepted, and by
\* u.name != false, which is rejected.
C7_IntegerLiteralsOnly == TypeMismatchRule({"int"})

C7_Witness ==
    /\ pc = "raised"
    /\ error.context = "Error in WHERE clause: "
    /\ IsTypeMismatch(error)
    /\ error.types = {"int", "str"}
    /\ Len(input.where) = 2
    /\ "literal" \in DOMAIN input.where[1].right
    /\ input.where[1].right.literal.type = "bool"
    /\ Mismatch(input.where[2], {"int", "bool"})

\* C2: the header is the first value produced, once only, and only when both the
\* SELECT and the WHERE clause are accepted; when either is rejected nothing has
\* been produced.
C2_HeaderFirst ==
    /\ output # <<>> =>
          /\ output[1] = Header(validate_and_coalesce_select(input, tables).query_headers)
          /\ \A k \in 2..Len(output) : output[k].kind = "row"
          /\ validate_and_coalesce_select(input, tables).raised = NoError
          /\ parse_where_clause(input, tables).raised = NoError
    /\ (pc = "raised" /\ error.context # "") => output = <<>>

C2_Witness ==
    /\ pc = "raised"
    /\ error.context = "Error in WHERE clause: "
    /\ output = <<>>
    /\ result_headers # <<>>

Prepend(first, rest) ==
    [j \in 1..(Len(first) * Len(rest)) |->
        <<first[((j - 1) \div Len(rest)) + 1]>> \o rest[((j - 1) % Len(rest)) + 1]]

\* The tuples of the cross product of the pools, the leftmost pool slowest.
RECURSIVE CrossProduct(_)
CrossProduct(ps) ==
    IF ps = <<>> THEN << <<>> >> ELSE Prepend(Head(ps), CrossProduct(Tail(ps)))

RECURSIVE SizeProduct(_)
SizeProduct(ps) == IF ps = <<>> THEN 1 ELSE Len(Head(ps)) * SizeProduct(Tail(ps))

\* The one row that holds every key of the rows of a tuple.
Merged(tuple) ==
    [key \in UNION {DOMAIN tuple[i] : i \in 1..Len(tuple)} |->
        tuple[CHOOSE i \in 1..Len(tuple) : key \in DOMAIN tuple[i]][key]]

\* The values of the select items, in the order of the select list.
Projection(q, row) == [k \in 1..Len(q.select) |-> row[FieldName(q.select[k])]]

\* The rows of the tuples, among the first n, that the conditions accept.
Accepting(q, conditions, tuples, n) ==
    LET passing == SelectSeq([j \in 1..n |-> j],
                             LAMBDA j : Call(TableFilter(conditions), Merged(tuples[j])).value)
    IN  [m \in 1..Len(passing) |-> Projection(q, Merged(tuples[passing[m]]))]

DataRows(out) == [k \in 1..(Len(out) - 1) |-> out[k + 1].row]

\* The rows of table i that its early bucket accepts.
EarlyFiltered(i) ==
    IF tables[i].name \in DOMAIN early_clauses
    THEN SelectSeq(tables[i].rows,
                   LAMBDA r : Call(TableFilter(early_clauses[tables[i].name]), r).value)
    ELSE tables[i].rows

\* C8: the data rows are, in order, the tuples of the cross product of the
\* early-filtered tables, leftmost table slowest, that satisfy the late
\* conditions, each as the select items' values in select-list order; the loop
\* examines as many tuples as the product of the filtered sizes.  While the
\* generator is suspended at a yield, the row it yielded is that of the tuple it
\* examined last.
C8_NestedLoopOrder ==
    pc \in {"loop", "yield", "done"} =>
        /\ \A i \in 1..Len(tables) : pools[i] = EarlyFiltered(i)
        /\ DataRows(output) = Accepting(query, late_clauses, CrossProduct(pools), examined)
        /\ pc = "done" => examined = SizeProduct(pools)
        /\ pc = "loop" =>
              /\ examined < SizeProduct(pools)
              /\ CurrentTuple(pools, indices) = CrossProduct(pools)[examined + 1]
        /\ pc = "yield" =>
              /\ examined \in 1..SizeProduct(pools)
              /\ CurrentTuple(pools, indices) = CrossProduct(pools)[examined]
              /\ output[Len(output)]
                    = DataRow(Projection(query, Merged(CrossProduct(pools)[examined])))

C8_Witness ==
    /\ pc = "done"
    /\ Len(pools) = 2
    /\ Len(pools[1]) < Len(tables[1].rows)
    /\ examined = 2
    /\ Len(output) = 2
    /\ Len(query.select) = 2

\* The select item names a column of a table in FROM.
ItemValid(field) == ColumnTypes(field) # {}

\* C6: a select item qualified with an alias that FROM does not declare is
\* rejected with the error that names the table, and one whose alias is declared
\* but whose table has no such column with the error that names the column, both
\* under the "Error in SELECT clause" context.
C6_SelectErrorsKeepDetail ==
    pc # "select" =>
        \A k \in 1..Len(input.select) :
            LET field == input.select[k]
                declared == {input.from[j].as : j \in 1..Len(input.from)}
            IN  (/\ field.column.table # None
                 /\ ~ItemValid(field)
                 /\ \A j \in 1..(k - 1) : ItemValid(input.select[j])) =>
                    /\ pc = "raised"
                    /\ error.context = "Error in SELECT clause: "
                    /\ error.field = IF field.column.table \in declared
                                     THEN field.column.name ELSE field.column.table

\* The tuples before the first on which the conditions raise.
FirstRaise(conditions, tuples) ==
    LET raising == {j \in 1..Len(tuples) :
                       Call(TableFilter(conditions), Merged(tuples[j])).raised # ""}
    IN  IF raising = {} THEN Len(tuples) ELSE Min(raising) - 1

\* The rows the loop of execute produces over the tuples.
RowsOf(q, conditions, tuples) ==
    Accepting(q, conditions, tuples, FirstRaise(conditions, tuples))

\* C1: the data rows of a run whose WHERE list passed validation are those got
\* by applying every WHERE condition to the tuples of the cross product of the
\* unfiltered tables.
C1_PushdownEquivalence ==
    (Classified /\ pc \in {"done", "raised"}) =>
        DataRows(output) =
            RowsOf(query, query.where, CrossProduct([i \in 1..Len(tables) |-> tables[i].rows]))

Joined(q, late, built) ==
    IF built.raised # "" THEN <<>> ELSE RowsOf(q, late, CrossProduct(built.pools))

\* execute after the two validation passes, v of the SELECT and p of the WHERE
Ran(v, p, tabs) ==
    IF v.raised # NoError \/ p.raised # NoError
    THEN [failed |-> TRUE, header |-> <<>>, rows |-> <<>>]
    ELSE [failed |-> FALSE, header |-> v.query_headers,
          rows |-> Joined(p.query, p.late_clauses, Pools(ToJoin(tabs, p.early_clauses)))]

Checked(v, tabs) == Ran(v, parse_where_clause(v.query, tabs), tabs)

\* What a whole run of execute on q comes to: whether validation rejects the
\* query, the header and the data rows.
Outcome(q, tabs) == Checked(validate_and_coalesce_select(q, tabs), tabs)

\* The same of the run this state is in.
OutcomeHere ==
    [failed |-> pc = "raised" /\ error.context # "",
     header |-> IF output = <<>> THEN <<>> ELSE output[1].header,
     rows |-> DataRows(output)]

Reorderings(w) ==
    {[k \in 1..Len(w) |-> w[f[k]]] :
        f \in {g \in [1..Len(w) -> 1..Len(w)] : \A i, j \in 1..Len(w) : g[i] = g[j] => i = j}}

\* C10: a run on the query with its WHERE list in any other order fails
\* validation when this run does, and otherwise produces the same header and
\* the same data rows.
C10_WhereOrderIndependent ==
    pc \in {"done", "raised"} =>
        \A w \in Reorderings(input.where) :
            Outcome([input EXCEPT !.where = w], tables) = OutcomeHere

(***************************************************************************)
(* TableFilter(conditions)(row) on its own                                 *)
(***************************************************************************)
MaxLit == 2
MaxConds == 2

\* Conditions of one type on both sides, over the columns of users
FilterConditions ==
    {Condition(Column(U, NAME), op, Literal(StrVal(v))) :
        op \in Operators, v \in SeqsUpTo({"a", "c", "'"}, MaxLit)}
    \cup {Condition(Column(U, ID), op, Literal(IntVal(n))) : op \in Operators, n \in 0..MaxRows}

FilterRows == {Table(File(USERS, MaxRows), U).rows[k] : k \in 1..MaxRows}

InitFilter ==
    /\ fconds \in SeqsUpTo(FilterConditions, MaxConds)
    /\ frow \in FilterRows
    /\ fresult = <<>>
    /\ pc = "call"
    /\ tables = <<>> /\ input = <<>> /\ query = <<>> /\ result_headers = <<>>
    /\ early_clauses = <<>> /\ late_clauses = <<>> /\ tables_to_join = <<>>
    /\ pools = <<>> /\ indices = <<>> /\ output = <<>> /\ examined = 0
    /\ error = NoError
    /\ rfield = <<>> /\ rtables = <<>> /\ rresult = <<>>

\* table_filter.py:14-43
CallFilter ==
    /\ pc = "call"
    /\ fresult' = Call(TableFilter(fconds), frow)
    /\ pc' = "returned"
    /\ UNCHANGED <<tables, input, query, result_headers, early_clauses, late_clauses,
                   tables_to_join, pools, indices, output, examined, error, fconds, frow,
                   rfield, rtables, rresult>>

NextFilter == CallFilter

SpecFilter == InitFilter /\ [][NextFilter]_vars

\* The value of one side: the literal itself, or the row's value under the
\* qualified name.
SideValue(e, row) ==
    IF "literal" \in DOMAIN e THEN e.literal
    ELSE row[QualifiedName(e.column.table, e.column.name)]

\* The comparison of two values of one type: of numbers for int, by code point
\* for str.
Compare(op, a, b) ==
    LET lt == IF a.type = "int" THEN a.int < b.int ELSE StrLess(a.str, b.str)
    IN  CASE op = <<"=">> -> a = b
          [] op = <<"!", "=">> -> a # b
          [] op = <<"<">> -> lt
          [] op = <<"<", "=">> -> lt \/ a = b
          [] op = <<">">> -> ~lt /\ a # b
          [] OTHER -> ~lt

\* C9: the filter returns, and returns true exactly when every condition holds,
\* compared directly on the values of its two sides, whatever characters a
\* literal holds.
C9_DirectComparison ==
    pc = "returned" =>
        /\ fresult.raised = ""
        /\ fresult.value <=>
              \A k \in 1..Len(fconds) :
                  Compare(fconds[k].op, SideValue(fconds[k].left, frow),
                          SideValue(fconds[k].right, frow))

(***************************************************************************)
(* get_table_for_field(field_name, tables) on its own                      *)
(***************************************************************************)
MaxTables == 3

Schemas == {<<>>, <<<<ID, "int">>>>, <<<<NAME, "str">>>>, <<<<ID, "int">>, <<NAME, "str">>>>}

\* Up to MaxTables tables without rows, of the aliases u, o, m, ... in order
TableLists ==
    UNION {{[i \in 1..n |-> Table([headers |-> h[i], rows |-> <<>>],
                                  IF i = 1 THEN U ELSE IF i = 2 THEN O
                                  ELSE [j \in 1..(i - 2) |-> "m"])] :
               h \in [1..n -> Schemas]} : n \in 1..MaxTables}

InitResolve ==
    /\ rfield \in {ID, NAME, AGE}
    /\ rtables \in TableLists
    /\ rresult = <<>>
    /\ pc = "resolve"
    /\ tables = <<>> /\ input = <<>> /\ query = <<>> /\ result_headers = <<>>
    /\ early_clauses = <<>> /\ late_clauses = <<>> /\ tables_to_join = <<>>
    /\ pools = <<>> /\ indices = <<>> /\ output = <<>> /\ examined = 0
    /\ error = NoError
    /\ fconds = <<>> /\ frow = <<>> /\ fresult = <<>>

\* sql_evaluator.py:8-26
Resolve ==
    /\ pc = "resolve"
    /\ rresult' = get_table_for_field(rfield, rtables)
    /\ pc' = "resolved"
    /\ UNCHANGED <<tables, input, query, result_headers, early_clauses, late_clauses,
                   tables_to_join, pools, indices, output, examined, error, fconds, frow,
                   fresult, rfield, rtables>>

NextResolve == Resolve

SpecResolve == InitResolve /\ [][NextResolve]_vars

\* C5: resolving a column name yields the table that declares it when exactly
\* one does; when none does it fails with an error of its own that names the
\* column, and when several do with the ambiguity error that names exactly
\* their aliases.
C5_Resolution ==
    pc = "resolved" =>
        LET matching == {i \in 1..Len(rtables) : rfield \in DOMAIN rtables[i].headers}
        IN  /\ Cardinality(matching) = 1 =>
                  rresult.raised = NoError /\ rresult.table \in matching
            /\ Cardinality(matching) = 0 =>
                  /\ rresult.raised # NoError
                  /\ rresult.raised.type # "IndexError"
                  /\ rresult.raised.field = rfield
            /\ Cardinality(matching) > 1 =>
                  /\ rresult.raised.field = rfield
                  /\ {rresult.raised.names[k] : k \in 1..Len(rresult.raised.names)}
                        = {rtables[i].name : i \in matching}

====
